---- MODULE Spec2Model ----
(***************************************************************************)
(* Model of src/main.py: the HTML -> Markdown -> chunked translation tool. *)
(* Text is a sequence of symbols: single characters, plus one symbol for   *)
(* each fixed literal of the prompts (the marker "<|plamo:op|>", the       *)
(* delimiter "Japanese translation:", the prompt keywords).                *)
(***************************************************************************)
EXTENDS Integers, Sequences, FiniteSets, TLC

\* ------------------------------------------------------------- bounds
MaxLen == 7
MaxChunkSize == 2
MaxStart == 3
MaxRuns == 3
ResumeLen == 5
MaxRegions == 2
HtmlLen == 4
ExtractLen == 6
PrimitiveLen == 3

\* ------------------------------------------------------------- defaults
\* line 159: chunk_size: int = 1000, start_line: int = 1
DefaultChunkSize == 1000
DefaultStartLine == 1

\* ------------------------------------------------------------- symbols
NL == "\n"
Letters == {"a"}
Chars == Letters \cup {NL}
Whitespace == {NL, " "}
None == "None"

\* '\n\n', the paragraph separator of split (line 190) and of the writes
SEP == <<NL, NL>>

\* every text of at most n symbols over Chars
Texts(n) == UNION {[1..k -> Chars] : k \in 0..n}

\* ------------------------------------------------------------- str methods
\* len(s)
len(s) == Len(s)

\* s.find(sep) + 1: the first position where sep occurs in s, 0 when none
find(s, sep) ==
    LET at == {i \in 1..(Len(s) - Len(sep) + 1) : SubSeq(s, i, i + Len(sep) - 1) = sep}
    IN  IF at = {} THEN 0 ELSE CHOOSE i \in at : \A j \in at : i <= j

\* s.split(sep): leftmost non-overlapping occurrences, empty pieces kept
RECURSIVE split(_, _)
split(s, sep) ==
    LET i == find(s, sep)
    IN  IF i = 0 THEN <<s>>
        ELSE <<SubSeq(s, 1, i - 1)>> \o split(SubSeq(s, i + Len(sep), Len(s)), sep)

\* sep.join(parts)
RECURSIVE join(_, _)
join(sep, parts) ==
    IF parts = <<>> THEN <<>>
    ELSE IF Len(parts) = 1 THEN parts[1]
    ELSE parts[1] \o sep \o join(sep, Tail(parts))

\* sub in s
contains(s, sub) == find(s, sub) # 0

\* s.replace(old, "")
remove(s, old) == join(<<>>, split(s, old))

\* s.strip()
strip(s) ==
    LET keep == {i \in 1..Len(s) : s[i] \notin Whitespace}
    IN  IF keep = {} THEN <<>>
        ELSE SubSeq(s, CHOOSE i \in keep : \A j \in keep : i <= j,
                       CHOOSE i \in keep : \A j \in keep : i >= j)

\* ------------------------------------------------------------- html_to_markdown
\* the number of newlines s begins with
RECURSIVE Newlines(_)
Newlines(s) == IF s # <<>> /\ Head(s) = NL THEN 1 + Newlines(Tail(s)) ELSE 0

\* line 54: re.sub(r'\n{3,}', '\n\n', s)
RECURSIVE Collapse(_)
Collapse(s) ==
    IF s = <<>> THEN <<>>
    ELSE IF Head(s) # NL THEN <<Head(s)>> \o Collapse(Tail(s))
    ELSE LET n == Newlines(s)
         IN  (IF n >= 3 THEN SEP ELSE SubSeq(s, 1, n))
                 \o Collapse(SubSeq(s, n + 1, Len(s)))

\* mutant of MarkdownParts: the Markdown of a region is kept unstripped
RECURSIVE MarkdownPartsUnstripped(_)
MarkdownPartsUnstripped(regions) ==
    IF regions = <<>> THEN <<>>
    ELSE (IF strip(Head(regions)) # <<>> THEN <<Head(regions)>> ELSE <<>>)
             \o MarkdownPartsUnstripped(Tail(regions))

\* lines 43-48: the stripped Markdown of the regions that are not blank
RECURSIVE MarkdownParts(_)
MarkdownParts(regions) ==
    IF regions = <<>> THEN <<>>
    ELSE (IF strip(Head(regions)) # <<>> THEN <<strip(Head(regions))>> ELSE <<>>)
             \o MarkdownParts(Tail(regions))

\* lines 22-56, on the regions find_all() selects (the whole document when it
\* selects none), each given as the text markdownify renders for it
html_to_markdown(regions) == Collapse(join(SEP, MarkdownParts(regions)))

\* the inputs of at most n regions that hold at most k symbols together
RECURSIVE RegionLists(_, _)
RegionLists(n, k) ==
    IF n = 0 THEN {<<>>}
    ELSE {<<>>} \cup UNION {{<<r>> \o h : h \in RegionLists(n - 1, k - Len(r))} :
                              r \in Texts(k)}

\* the same, of one region at least: find_all() or the fallback of line 40
\* always gives one
Htmls(n, k) == RegionLists(n, k) \ {<<>>}

\* ------------------------------------------------------------- model names
PlamoTranslate == "mlx-community/plamo-2-translate"
GenericModel == "mlx-community/generic-instruct"
ModelNames == {PlamoTranslate, GenericModel}

\* "plamo" in model_name.lower()
IsPlamo(name) == name \in {PlamoTranslate}
\* "translate" in model_name.lower()
IsTranslate(name) == name \in {PlamoTranslate}

\* ------------------------------------------------------------- the primitive
OP == "<|plamo:op|>"
JT == "Japanese translation:"

\* translation_prompt (lines 87-97)
Prompt(text, name) ==
    IF IsPlamo(name) /\ IsTranslate(name)
    THEN <<OP, "dataset", NL, "translation", NL, OP, "input lang=English", NL>>
         \o text
         \o <<NL, OP, "output lang=Japanese writingStyle=polite", NL>>
    ELSE <<"Translate the following English text to Japanese:", NL, NL>>
         \o text \o <<NL, NL, JT>>

\* what generate() does on one call: it raises, or it returns a raw output
Outcomes == {"fail", "bare", "echo", "empty"}

\* the further raw outputs translate_with_mlx_lm is tried on when called
\* alone: whitespace only, the echoed prompt only (for a generic model it
\* ends right after the delimiter), a text beginning with the marker, a text
\* ending with the delimiter, and an echoed prompt followed by a translation
\* of two paragraphs and trailing blank lines
RawKinds == Outcomes \cup {"blank", "prompt", "marker", "delimiter", "paragraphs"}

\* the raw output of generate() for an outcome that returns: the translation
\* alone ("j" marks the text as translated), the prompt echoed before it, or
\* nothing
Generated(kind, prompt, text) ==
    CASE kind = "bare" -> <<"j">> \o text
      [] kind = "echo" -> prompt \o <<"j">> \o text
      [] kind = "blank" -> <<" ", NL>>
      [] kind = "prompt" -> prompt
      [] kind = "marker" -> <<OP, "j">> \o text
      [] kind = "delimiter" -> <<"j">> \o text \o <<JT>>
      [] kind = "paragraphs" ->
             prompt \o <<NL, "j">> \o text \o <<NL, NL, "j", "j">> \o text \o <<NL, NL>>
      [] OTHER -> <<>>

\* lines 141-148: the stripped lines up to the first blank one
RECURSIVE CleanLines(_)
CleanLines(lines) ==
    IF lines = <<>> THEN <<>>
    ELSE LET line == strip(Head(lines))
         IN  IF line # <<>> THEN <<line>> \o CleanLines(Tail(lines)) ELSE <<>>

\* lines 117-151: the translation extracted from the raw output
Extract(text, name, translation_prompt, translated_text) ==
    IF IsPlamo(name) /\ IsTranslate(name)
    THEN LET r1 == IF contains(translated_text, translation_prompt)
                   THEN strip(remove(translated_text, translation_prompt))
                   ELSE strip(translated_text)
             r2 == IF contains(r1, <<OP>>) THEN strip(split(r1, <<OP>>)[1]) ELSE r1
         IN  IF r2 = <<>> THEN text ELSE r2
    ELSE IF contains(translated_text, <<JT>>)
    THEN LET parts == split(translated_text, <<JT>>)
             result == strip(parts[Len(parts)])
         IN  join(<<NL>>, CleanLines(split(result, <<NL>>)))
    ELSE strip(translated_text)

\* mutant of translate_with_mlx_lm: a failed generation returns nothing
translate_without_fallback(text, name, mdl, kind) ==
    [result |-> IF kind = "fail" THEN <<>>
                ELSE Extract(text, name, Prompt(text, name),
                             Generated(kind, Prompt(text, name), text)),
     loads |-> IF mdl = None THEN 1 ELSE 0,
     generates |-> 1]

\* translate_with_mlx_lm(text, model_name, model, tokenizer), for one outcome
\* of generate(): the text returned, and how many times load() and generate()
\* were called
translate_with_mlx_lm(text, name, mdl, kind) ==
    [result |-> IF kind = "fail" THEN text
                ELSE Extract(text, name, Prompt(text, name),
                             Generated(kind, Prompt(text, name), text)),
     loads |-> IF mdl = None THEN 1 ELSE 0,
     generates |-> 1]

\* ------------------------------------------------------------- state
VARIABLES
    markdown_content,      \* argument: the Markdown text
    model_name,            \* argument: the model identifier
    chunk_size,            \* argument: the target chunk size
    start_line,            \* argument: the 1-indexed starting paragraph
    file_exists,           \* the output file: whether it exists
    file_content,          \* the output file: its content (<<>> when absent)
    pc,                    \* position in translate_markdown_chunks
    model,                 \* the loaded model/tokenizer pair, None before load()
    paragraphs,            \* line 190
    paragraph_count,       \* line 207
    current_chunk,         \* line 205
    chunk_count,           \* line 206
    translated_paragraphs, \* line 204
    translated_chunk,      \* lines 228, 264
    returned,              \* the value returned, None while running
    deterministic,         \* whether generate() is a function of its prompt
    gen,                   \* the outcomes generate() has had, by chunk text
    load_calls,            \* log: calls of load() in this invocation
    generate_calls,        \* log: calls of generate() in this invocation
    calls,                 \* log: the texts passed to translate_with_mlx_lm
    failed,                \* log: for each call, whether generate() raised
    reported,              \* log: the paragraph number printed with each chunk
    writes,                \* log: the data of each append to the output file
    file_before,           \* log: the output file when the invocation began
    runs,                  \* log: invocations begun
    last,                  \* log: how the last invocation that ended did end
    ref_file,              \* log: the file left by the last complete run from paragraph 1
    html_content,          \* main: the input file's regions, each as markdownify renders it
    input_exists,          \* main: whether the input file exists
    no_translate,          \* main: --no-translate
    arg_start_line,        \* main: --start-line
    exit_code,             \* main: the exit code, None while running
    text,                  \* translate_with_mlx_lm called alone: its argument
    translated_text,       \* line 101 or 109: what generate() returned, None if it raised
    result                 \* what translate_with_mlx_lm returned, None before

vars == <<markdown_content, model_name, chunk_size, start_line, file_exists,
          file_content, pc, model, paragraphs, paragraph_count, current_chunk,
          chunk_count, translated_paragraphs, translated_chunk, returned,
          deterministic, gen, load_calls, generate_calls, calls, failed, writes,
          reported, file_before, runs, last, ref_file, html_content,
          input_exists, no_translate, arg_start_line, exit_code, text,
          translated_text, result>>

args == <<markdown_content, model_name, chunk_size, start_line>>
file == <<file_exists, file_content>>
locals == <<paragraphs, paragraph_count, current_chunk, chunk_count,
            translated_paragraphs, translated_chunk>>
logs == <<load_calls, generate_calls, calls, failed, reported, writes>>
cli == <<html_content, input_exists, no_translate, arg_start_line, exit_code>>
primitive == <<text, translated_text, result>>
history == <<file_before, runs, last, ref_file, cli, primitive>>

NoRun == [outcome |-> None, start_line |-> 0, appended |-> 0, contained |-> 0,
          reported |-> 0, document |-> <<>>]

\* the paragraphs the chunks hold, chunk by chunk
RECURSIVE ParagraphsOf(_)
ParagraphsOf(chunks) ==
    IF chunks = <<>> THEN <<>>
    ELSE split(Head(chunks), SEP) \o ParagraphsOf(Tail(chunks))

\* ------------------------------------------------------------- translate_markdown_chunks
\* the call translate_markdown_chunks(markdown_content, output_file_path,
\* model_name, chunk_size, start_line) (lines 158-159)
Invoke(md, name, size, start) ==
    /\ markdown_content' = md
    /\ model_name' = name
    /\ chunk_size' = size
    /\ start_line' = start
    /\ pc' = "load"
    /\ model' = None
    /\ paragraphs' = <<>>
    /\ paragraph_count' = 0
    /\ current_chunk' = <<>>
    /\ chunk_count' = 0
    /\ translated_paragraphs' = <<>>
    /\ translated_chunk' = <<>>
    /\ returned' = None
    /\ load_calls' = 0
    /\ generate_calls' = 0
    /\ calls' = <<>>
    /\ failed' = <<>>
    /\ reported' = <<>>
    /\ writes' = <<>>
    /\ file_before' = [exists |-> file_exists, content |-> file_content]
    /\ runs' = runs + 1
    /\ UNCHANGED <<file, deterministic, gen, primitive, html_content, input_exists,
                   no_translate, arg_start_line, exit_code>>

\* a first call of the function, with any starting paragraph
Call ==
    /\ pc = "idle"
    /\ \E start \in 1..MaxStart :
           Invoke(markdown_content, model_name, chunk_size, start)
    /\ UNCHANGED <<last, ref_file>>

\* a later call on the same Markdown with the same chunk size, after the
\* invocation before it has returned or was terminated
Recall ==
    /\ pc \in {"exited", "killed"}
    /\ runs < MaxRuns
    /\ \E start \in 1..MaxStart :
           Invoke(markdown_content, model_name, chunk_size, start)
    /\ UNCHANGED <<last, ref_file>>

\* lines 175-184: load() returns the model/tokenizer pair
LoadOk ==
    /\ pc = "load"
    /\ model' = "loaded"
    /\ load_calls' = load_calls + 1
    /\ pc' = "split"
    /\ UNCHANGED <<args, file, locals, returned, deterministic, gen,
                   generate_calls, calls, failed, reported, writes, history>>

\* mutant of LoadFail: the failure is reported and the function goes on
LoadFailIgnored ==
    /\ pc = "load"
    /\ load_calls' = load_calls + 1
    /\ pc' = "split"
    /\ UNCHANGED <<args, file, model, locals, returned, deterministic, gen,
                   generate_calls, calls, failed, reported, writes, history>>

\* lines 185-187: load() raises
LoadFail ==
    /\ pc = "load"
    /\ load_calls' = load_calls + 1
    /\ returned' = markdown_content
    /\ pc' = "done"
    /\ UNCHANGED <<args, file, model, locals, deterministic, gen,
                   generate_calls, calls, failed, reported, writes, history>>

\* mutant of Truncates: the file is emptied whatever the starting paragraph
TruncatesAlways(start) == TRUE

\* line 199: whether the output file is emptied before the loop
Truncates(start) == start = 1

\* lines 190-207: split into paragraphs, empty the file when starting from
\* paragraph 1, initialise the loop
InitOutput ==
    /\ pc = "split"
    /\ paragraphs' = split(markdown_content, SEP)
    /\ IF Truncates(start_line)
       THEN /\ file_exists' = TRUE
            /\ file_content' = <<>>
       ELSE UNCHANGED file
    /\ translated_paragraphs' = <<>>
    /\ current_chunk' = <<>>
    /\ chunk_count' = 0
    /\ paragraph_count' = 0
    /\ pc' = "loop"
    /\ UNCHANGED <<args, model, translated_chunk, returned, deterministic, gen,
                   logs, history>>

\* line 213: the paragraph lies before the starting paragraph
Skips(count, start) == count < start

\* mutant of Closes: the test for a non-empty chunk is left out
ClosesWhenever(chunk, paragraph, size) == len(chunk) + len(paragraph) > size

\* line 217: the chunk is closed before the paragraph
Closes(chunk, paragraph, size) ==
    len(chunk) + len(paragraph) > size /\ chunk # <<>>

\* mutant of Added: the paragraph is added without the separator
AddedWithoutSeparator(chunk, paragraph) == chunk \o paragraph

\* lines 248-251: the chunk with the paragraph added
Added(chunk, paragraph) ==
    IF chunk # <<>> THEN chunk \o SEP \o paragraph ELSE paragraph

\* lines 209-214: the next paragraph is skipped
SkipParagraph ==
    /\ pc = "loop"
    /\ paragraph_count < Len(paragraphs)
    /\ Skips(paragraph_count + 1, start_line)
    /\ paragraph_count' = paragraph_count + 1
    /\ UNCHANGED <<args, file, pc, model, paragraphs, current_chunk, chunk_count,
                   translated_paragraphs, translated_chunk, returned,
                   deterministic, gen, logs, history>>

\* lines 246-251: the next paragraph joins the current chunk
AddParagraph ==
    /\ pc = "loop"
    /\ paragraph_count < Len(paragraphs)
    /\ ~Skips(paragraph_count + 1, start_line)
    /\ ~Closes(current_chunk, paragraphs[paragraph_count + 1], chunk_size)
    /\ paragraph_count' = paragraph_count + 1
    /\ current_chunk' = Added(current_chunk, paragraphs[paragraph_count + 1])
    /\ UNCHANGED <<args, file, pc, model, paragraphs, chunk_count,
                   translated_paragraphs, translated_chunk, returned,
                   deterministic, gen, logs, history>>

\* lines 217-226: the next paragraph closes the current chunk
CloseChunk ==
    /\ pc = "loop"
    /\ paragraph_count < Len(paragraphs)
    /\ ~Skips(paragraph_count + 1, start_line)
    /\ Closes(current_chunk, paragraphs[paragraph_count + 1], chunk_size)
    /\ paragraph_count' = paragraph_count + 1
    /\ chunk_count' = chunk_count + 1
    /\ pc' = "translate"
    /\ UNCHANGED <<args, file, model, paragraphs, current_chunk,
                   translated_paragraphs, translated_chunk, returned,
                   deterministic, gen, logs, history>>

\* mutant of Handle: the loop calls the primitive without the loaded pair
HandleDropped(mdl) == None

\* the model handle the chunk loop passes to translate_with_mlx_lm
Handle(mdl) == mdl

\* lines 228-229 and 264-265: translate_with_mlx_lm on the current chunk;
\* generate() raises or returns, as before for the same text if it is
\* deterministic
Translate ==
    /\ pc \in {"translate", "translate_last"}
    /\ \E kind \in Outcomes :
           /\ (deterministic /\ current_chunk \in DOMAIN gen)
                  => kind = gen[current_chunk]
           /\ gen' = IF deterministic THEN (current_chunk :> kind) @@ gen ELSE gen
           /\ LET r == translate_with_mlx_lm(current_chunk, model_name,
                                             Handle(model), kind)
              IN  /\ translated_chunk' = r.result
                  /\ translated_paragraphs' = Append(translated_paragraphs, r.result)
                  /\ load_calls' = load_calls + r.loads
                  /\ generate_calls' = generate_calls + r.generates
           /\ failed' = Append(failed, kind = "fail")
    /\ calls' = Append(calls, current_chunk)
    /\ reported' = Append(reported, IF pc = "translate" THEN paragraph_count - 1
                                     ELSE paragraph_count)
    /\ pc' = IF pc = "translate" THEN "append" ELSE "append_last"
    /\ UNCHANGED <<args, file, model, paragraphs, paragraph_count, current_chunk,
                   chunk_count, returned, deterministic, writes, history>>

\* mutant of WriteData: the first chunk of every run is written bare
WriteDataByCount(start, count, chunk) ==
    IF count = 1 THEN chunk ELSE SEP \o chunk

\* mutant of WriteData: every append carries the separator
WriteDataSeparated(start, count, chunk) == SEP \o chunk

\* lines 237-242 and 273-278: the data of the append
WriteData(start, count, chunk) ==
    IF start = 1 /\ count = 1 THEN chunk ELSE SEP \o chunk

\* mutant of AppendChunk: the translated chunk is kept in memory and the file
\* is left for later
AppendChunkDeferred ==
    /\ pc = "append"
    /\ writes' = Append(writes, WriteData(start_line, chunk_count, translated_chunk))
    /\ current_chunk' = paragraphs[paragraph_count]
    /\ pc' = "loop"
    /\ UNCHANGED <<args, file, model, paragraphs, paragraph_count, chunk_count,
                   translated_paragraphs, translated_chunk, returned,
                   deterministic, gen, load_calls, generate_calls, calls, failed,
                   reported, history>>

\* lines 236-245: the translated chunk is appended to the output file, and
\* the paragraph that closed the chunk starts the next one
AppendChunk ==
    /\ pc = "append"
    /\ file_exists' = TRUE
    /\ file_content' = file_content \o WriteData(start_line, chunk_count, translated_chunk)
    /\ writes' = Append(writes, WriteData(start_line, chunk_count, translated_chunk))
    /\ current_chunk' = paragraphs[paragraph_count]
    /\ pc' = "loop"
    /\ UNCHANGED <<args, model, paragraphs, paragraph_count, chunk_count,
                   translated_paragraphs, translated_chunk, returned,
                   deterministic, gen, load_calls, generate_calls, calls, failed,
                   reported, history>>

\* lines 254-262: after the last paragraph, a non-empty chunk is still to be
\* translated
LastChunk ==
    /\ pc = "loop"
    /\ paragraph_count = Len(paragraphs)
    /\ current_chunk # <<>>
    /\ chunk_count' = chunk_count + 1
    /\ pc' = "translate_last"
    /\ UNCHANGED <<args, file, model, paragraphs, paragraph_count, current_chunk,
                   translated_paragraphs, translated_chunk, returned,
                   deterministic, gen, logs, history>>

\* lines 272-279: the last translated chunk is appended to the output file
AppendLast ==
    /\ pc = "append_last"
    /\ file_exists' = TRUE
    /\ file_content' = file_content \o WriteData(start_line, chunk_count, translated_chunk)
    /\ writes' = Append(writes, WriteData(start_line, chunk_count, translated_chunk))
    /\ pc' = "return"
    /\ UNCHANGED <<args, model, locals, returned, deterministic, gen, load_calls,
                   generate_calls, calls, failed, reported, history>>

\* line 254: after the last paragraph, the chunk is empty
NoLastChunk ==
    /\ pc = "loop"
    /\ paragraph_count = Len(paragraphs)
    /\ current_chunk = <<>>
    /\ pc' = "return"
    /\ UNCHANGED <<args, file, model, locals, returned, deterministic, gen, logs,
                   history>>

\* line 281
Return ==
    /\ pc = "return"
    /\ returned' = join(SEP, translated_paragraphs)
    /\ pc' = "done"
    /\ UNCHANGED <<args, file, model, locals, deterministic, gen, logs, history>>

\* how the running invocation ends: the chunks it appended and the
\* paragraphs those chunks hold
Ended(how) ==
    [outcome |-> how, start_line |-> start_line, appended |-> Len(writes),
     contained |-> Len(ParagraphsOf(SubSeq(calls, 1, Len(writes)))),
     reported |-> IF writes = <<>> THEN 0 ELSE reported[Len(writes)],
     document |-> markdown_content]

\* the process ends: its memory is gone, the output file stays
Forget ==
    /\ model' = None
    /\ paragraphs' = <<>>
    /\ paragraph_count' = 0
    /\ current_chunk' = <<>>
    /\ chunk_count' = 0
    /\ translated_paragraphs' = <<>>
    /\ translated_chunk' = <<>>
    /\ returned' = None
    /\ load_calls' = 0
    /\ generate_calls' = 0
    /\ calls' = <<>>
    /\ failed' = <<>>
    /\ reported' = <<>>
    /\ writes' = <<>>
    /\ UNCHANGED <<args, file, deterministic, gen, file_before, runs, cli,
                   primitive>>

\* the process is terminated while the function runs; the output file stays
\* as the last completed write left it
Kill ==
    /\ pc \notin {"idle", "done", "exited", "killed", "exit"}
    /\ pc' = "killed"
    /\ last' = Ended("killed")
    /\ UNCHANGED ref_file
    /\ Forget

\* the process ends after the function has returned
Exit ==
    /\ pc = "done"
    /\ pc' = "exited"
    /\ last' = Ended(IF model = None THEN "load failed" ELSE "returned")
    /\ ref_file' = IF start_line = 1 /\ model # None THEN file_content ELSE ref_file
    /\ Forget

\* the steps of an invocation that skips no paragraph
StepsFromFirst ==
    \/ LoadOk \/ LoadFail \/ InitOutput
    \/ AddParagraph \/ CloseChunk
    \/ Translate \/ AppendChunk
    \/ LastChunk \/ NoLastChunk \/ AppendLast
    \/ Return \/ Kill

Steps == StepsFromFirst \/ SkipParagraph

\* ------------------------------------------------------------- specifications
\* one invocation of translate_markdown_chunks: any Markdown text, chunk size,
\* model and starting paragraph, the output file absent or holding old content
\* no invocation has begun
Fresh ==
    /\ model = None
    /\ paragraphs = <<>>
    /\ paragraph_count = 0
    /\ current_chunk = <<>>
    /\ chunk_count = 0
    /\ translated_paragraphs = <<>>
    /\ translated_chunk = <<>>
    /\ returned = None
    /\ gen = <<>>
    /\ load_calls = 0
    /\ generate_calls = 0
    /\ calls = <<>>
    /\ failed = <<>>
    /\ reported = <<>>
    /\ writes = <<>>
    /\ file_before = [exists |-> file_exists, content |-> file_content]
    /\ runs = 0
    /\ last = NoRun
    /\ ref_file = None
    /\ translated_text = None
    /\ result = None

Start(det, n) ==
    /\ markdown_content \in Texts(n)
    /\ model_name \in ModelNames
    /\ chunk_size \in 1..MaxChunkSize
    /\ start_line = DefaultStartLine
    /\ file_exists \in (IF det THEN {FALSE} ELSE BOOLEAN)
    /\ file_content = IF file_exists THEN <<"o">> ELSE <<>>
    /\ pc = "idle"
    /\ deterministic = det
    /\ Fresh
    /\ text = <<>>
    /\ html_content = <<>>
    /\ input_exists = TRUE
    /\ no_translate = FALSE
    /\ arg_start_line = DefaultStartLine
    /\ exit_code = None

Init == Start(FALSE, MaxLen)

Next == Call \/ Steps \/ Exit

Spec == Init /\ [][Next]_vars

\* a sequence of invocations on the same Markdown with the same chunk size and
\* a deterministic generate(): runs that are terminated, runs that resume
InitResume == Start(TRUE, ResumeLen)

NextResume == Call \/ Recall \/ Steps \/ Exit

SpecResume == InitResume /\ [][NextResume]_vars

\* the documents of at most MaxLen symbols that can have md as their last
\* paragraphs: those that end with the separator and md, and, for the empty
\* md, any document (a starting paragraph past its end leaves nothing)
Longer(md) ==
    (IF Len(md) + Len(SEP) <= MaxLen
     THEN {before \o SEP \o md : before \in Texts(MaxLen - Len(md) - Len(SEP))}
     ELSE {})
        \cup (IF md = <<>> THEN Texts(MaxLen) ELSE {})

\* after a complete run from paragraph 1, a call with a later starting
\* paragraph K on a longer document, of which the document just translated
\* is the paragraphs K..N; the output file is the one the first run left
RecallOnLonger ==
    /\ pc = "exited"
    /\ runs < 2
    /\ last.outcome = "returned" /\ last.start_line = 1
    /\ \E whole \in Longer(markdown_content), start \in 2..MaxStart :
           /\ join(SEP, SubSeq(split(whole, SEP), start, Len(split(whole, SEP))))
                  = markdown_content
           /\ Invoke(whole, model_name, chunk_size, start)
    /\ UNCHANGED <<last, ref_file>>

\* a fresh run on a document, then a run from paragraph K on a document whose
\* paragraphs K..N are the first one, with a deterministic generate()
InitTail == Start(TRUE, ResumeLen)

NextTail == Call \/ RecallOnLonger \/ Steps \/ Exit

SpecTail == InitTail /\ [][NextTail]_vars

\* ------------------------------------------------------------- main
\* lines 320-323: the input file is missing
MainMissingInput ==
    /\ pc = "main"
    /\ ~input_exists
    /\ exit_code' = 1
    /\ pc' = "exit"
    /\ UNCHANGED <<args, file, model, locals, returned, deterministic, gen, logs,
                   file_before, runs, last, ref_file, primitive, html_content,
                   input_exists,
                   no_translate, arg_start_line>>

\* lines 325-329, 355-357: reading the input file raises (it is not UTF-8)
MainReadError ==
    /\ pc = "main"
    /\ input_exists
    /\ exit_code' = 1
    /\ pc' = "exit"
    /\ UNCHANGED <<args, file, model, locals, returned, deterministic, gen, logs,
                   file_before, runs, last, ref_file, primitive, html_content,
                   input_exists,
                   no_translate, arg_start_line>>

\* lines 326-333: the input is read and converted to Markdown
MainConvert ==
    /\ pc = "main"
    /\ input_exists
    /\ markdown_content' = html_to_markdown(html_content)
    /\ pc' = "converted"
    /\ UNCHANGED <<model_name, chunk_size, start_line, file, model, locals,
                   returned, deterministic, gen, logs, history>>

\* mutant of WriteFile: the file is opened for appending
WriteFileAppending(old, data) == old \o data

\* lines 343-344: open(output_path, 'w') and one write: the content of the
\* file after it
WriteFile(old, data) == data

\* lines 335-347: --no-translate: the Markdown is written in one write
MainNoTranslate ==
    /\ pc = "converted"
    /\ no_translate
    /\ file_exists' = TRUE
    /\ file_content' = WriteFile(file_content, markdown_content)
    /\ writes' = Append(writes, markdown_content)
    /\ exit_code' = 0
    /\ pc' = "exit"
    /\ UNCHANGED <<args, model, locals, returned, deterministic, gen,
                   load_calls, generate_calls, calls, failed, reported,
                   file_before, runs, last, ref_file, primitive, html_content,
                   input_exists,
                   no_translate, arg_start_line>>

\* lines 348-351: translate_markdown_chunks(markdown_content, args.output_file,
\* args.model, args.start_line): the fourth positional parameter is
\* chunk_size, and start_line keeps its default
MainTranslate ==
    /\ pc = "converted"
    /\ ~no_translate
    /\ Invoke(markdown_content, model_name, arg_start_line, DefaultStartLine)
    /\ UNCHANGED <<last, ref_file>>

\* mutant of MainDone: a run with a chunk that fell back ends with code 1
MainDoneStrict ==
    /\ pc = "done"
    /\ exit_code' = IF \E i \in 1..Len(failed) : failed[i] THEN 1 ELSE 0
    /\ pc' = "exit"
    /\ UNCHANGED <<args, file, model, locals, returned, deterministic, gen, logs,
                   file_before, runs, last, ref_file, primitive, html_content,
                   input_exists,
                   no_translate, arg_start_line>>

\* line 353: the translation stage has returned and main ends
MainDone ==
    /\ pc = "done"
    /\ exit_code' = 0
    /\ pc' = "exit"
    /\ UNCHANGED <<args, file, model, locals, returned, deterministic, gen, logs,
                   file_before, runs, last, ref_file, primitive, html_content,
                   input_exists,
                   no_translate, arg_start_line>>

\* one run of the command line: any input, present or missing, any options
InitMain ==
    /\ html_content \in Htmls(MaxRegions, HtmlLen)
    /\ input_exists \in BOOLEAN
    /\ no_translate \in BOOLEAN
    /\ arg_start_line \in 1..MaxStart
    /\ model_name \in ModelNames
    /\ exit_code = None
    /\ markdown_content = <<>>
    /\ chunk_size = DefaultChunkSize
    /\ start_line = DefaultStartLine
    /\ file_exists \in BOOLEAN
    /\ file_content = IF file_exists THEN <<"o">> ELSE <<>>
    /\ pc = "main"
    /\ deterministic = FALSE
    /\ Fresh
    /\ text = <<>>

\* main always calls with start_line = 1 (StartLineBecomesChunkSize), so line
\* 213 never holds under it and SkipParagraph has no step to take
NextMain ==
    \/ MainMissingInput \/ MainReadError \/ MainConvert
    \/ MainNoTranslate \/ MainTranslate \/ MainDone
    \/ StepsFromFirst

SpecMain == InitMain /\ [][NextMain]_vars

\* html_to_markdown alone, on regions long enough to hold a blank line and a
\* longer run of newlines
InitExtract ==
    /\ html_content \in Htmls(MaxRegions, ExtractLen)
    /\ input_exists = TRUE
    /\ no_translate = TRUE
    /\ arg_start_line = DefaultStartLine
    /\ model_name = PlamoTranslate
    /\ exit_code = None
    /\ markdown_content = <<>>
    /\ chunk_size = DefaultChunkSize
    /\ start_line = DefaultStartLine
    /\ file_exists = FALSE
    /\ file_content = <<>>
    /\ pc = "main"
    /\ deterministic = FALSE
    /\ Fresh
    /\ text = <<>>

NextExtract == MainConvert

SpecExtract == InitExtract /\ [][NextExtract]_vars

\* translate_with_mlx_lm alone: any text, either model name, with or without
\* a loaded model, and any raw output of generate()
InitPrimitive ==
    /\ text \in Texts(PrimitiveLen)
    /\ model_name \in ModelNames
    /\ markdown_content = <<>>
    /\ chunk_size = DefaultChunkSize
    /\ start_line = DefaultStartLine
    /\ file_exists = FALSE
    /\ file_content = <<>>
    /\ pc = "primitive"
    /\ deterministic = FALSE
    /\ Fresh
    /\ html_content = <<>>
    /\ input_exists = TRUE
    /\ no_translate = FALSE
    /\ arg_start_line = DefaultStartLine
    /\ exit_code = None

\* lines 59-155: one call translate_with_mlx_lm(text, model_name) or
\* translate_with_mlx_lm(text, model_name, model, tokenizer)
Primitive ==
    /\ pc = "primitive"
    /\ \E kind \in RawKinds, mdl \in {None, "loaded"} :
           LET r == translate_with_mlx_lm(text, model_name, mdl, kind)
           IN  /\ translated_text' = IF kind = "fail" THEN None
                                     ELSE Generated(kind, Prompt(text, model_name), text)
               /\ result' = r.result
               /\ load_calls' = load_calls + r.loads
               /\ generate_calls' = generate_calls + r.generates
               /\ failed' = Append(failed, kind = "fail")
    /\ calls' = Append(calls, text)
    /\ pc' = "returned"
    /\ UNCHANGED <<args, file, model, locals, returned, deterministic, gen,
                   reported, writes, file_before, runs, last, ref_file, cli, text>>

NextPrimitive == Primitive

SpecPrimitive == InitPrimitive /\ [][NextPrimitive]_vars

\* ------------------------------------------------------------- properties
\* positions inside the chunk loop and after it, up to the return
InLoop == pc \in {"loop", "translate", "append", "translate_last", "append_last",
                  "return", "done"} /\ model # None

\* the primitive is being invoked on current_chunk
Invoking == pc \in {"translate", "translate_last"}

\* the paragraphs taken from the document when the primitive is invoked: the
\* paragraph that closed the chunk is not among them
Taken == IF pc = "translate" THEN paragraph_count - 1 ELSE paragraph_count

NonEmpty(parts) == SelectSeq(parts, LAMBDA x : x # <<>>)

IsPrefix(s, t) == Len(s) <= Len(t) /\ SubSeq(t, 1, Len(s)) = s

Range(f) == {f[i] : i \in DOMAIN f}

\* C1: in a run from paragraph 1, chunks are translated one at a time in
\* document order; when the primitive is invoked for the i-th chunk the file
\* holds the '\n\n'-join of the results for chunks 1..i-1, and at every point
\* the file holds exactly the results of the chunks appended so far.
C1_AppendedBeforeNextChunk ==
    (InLoop /\ start_line = 1) =>
        /\ Len(writes) \in {Len(calls) - 1, Len(calls)}
        /\ file_content = join(SEP, SubSeq(translated_paragraphs, 1, Len(writes)))
        /\ Invoking =>
               /\ Len(calls) = chunk_count - 1
               /\ Len(writes) = chunk_count - 1
               /\ file_content = join(SEP, translated_paragraphs)
               /\ NonEmpty(ParagraphsOf(Append(calls, current_chunk)))
                      = NonEmpty(SubSeq(paragraphs, 1, Taken))

\* C1 witness: the primitive is invoked for the second chunk while the first
\* chunk's translation is in the file
C1_Witness ==
    /\ pc = "translate" /\ start_line = 1 /\ chunk_count = 2
    /\ file_content # <<>> /\ file_content = translated_paragraphs[1]

\* C3: for a start paragraph K on a document of N paragraphs, the paragraphs
\* passed to the primitive, over all chunks in order, are exactly the
\* paragraphs K..N, each once (so none before K is passed).
C3_ExactlyParagraphsFromStart ==
    (pc = "done" /\ model # None) =>
        ParagraphsOf(calls) = SubSeq(paragraphs, start_line, Len(paragraphs))

\* the part of C3 the code keeps: the non-empty paragraphs passed to the
\* primitive are the non-empty ones among K..N, in order, each once
SkippedNeverTranslated ==
    (pc = "done" /\ model # None) =>
        NonEmpty(ParagraphsOf(calls))
            = NonEmpty(SubSeq(paragraphs, start_line, Len(paragraphs)))

\* C5: with a start paragraph > 1 the content the file had before the run is
\* a prefix of its content in every state during and after the run; with
\* start paragraph 1 and a successful load the old content is gone before the
\* first chunk is translated.
C5_TruncateOnlyFromFirst ==
    /\ (pc # "idle" /\ start_line > 1) =>
           /\ IsPrefix(file_before.content, file_content)
           /\ file_before.exists => file_exists
    /\ (InLoop /\ start_line = 1) =>
           /\ file_exists
           /\ calls = <<>> => file_content = <<>>
           /\ writes = <<>> => file_content = <<>>

\* C5 witness: a run from a later paragraph has appended to old content
C5_Witness ==
    /\ pc = "done" /\ start_line > 1 /\ file_before.content # <<>>
    /\ Len(writes) >= 1 /\ Len(file_content) > Len(file_before.content)

\* C6: load() is called exactly once in an invocation, before any chunk is
\* translated, whatever the number of chunks and whichever of them fail.
C6_LoadedOnce ==
    /\ pc = "load" => (load_calls = 0 /\ calls = <<>>)
    /\ pc \in {"split", "loop", "translate", "append", "translate_last",
               "append_last", "return", "done"} => load_calls = 1

\* C6 witness: a run of two chunks, one of which failed, has returned
C6_Witness ==
    /\ pc = "done" /\ Len(calls) >= 2 /\ load_calls = 1
    /\ TRUE \in Range(failed) /\ FALSE \in Range(failed)

\* C7: when load() fails the function returns the Markdown unchanged, never
\* invokes the primitive and leaves the output file as it was: not created,
\* not emptied, not appended to.
C7_LoadFailureLeavesFile ==
    (pc = "done" /\ model = None) =>
        /\ returned = markdown_content
        /\ calls = <<>> /\ generate_calls = 0 /\ writes = <<>>
        /\ file_exists = file_before.exists
        /\ file_content = file_before.content

\* C7 witness: the load failed in a run from paragraph 1 over an existing file
C7_Witness ==
    /\ pc = "done" /\ model = None /\ start_line = 1
    /\ file_before.exists /\ file_content # <<>>
    /\ markdown_content # <<>>

\* C7 witness of the other case: the file did not exist and still does not
LoadFailureCreatesNothing ==
    pc = "done" /\ model = None /\ ~file_before.exists /\ ~file_exists

\* C8: a failed generation is attempted once and not retried, the chunk's
\* original text takes its place in the file, and every later chunk is still
\* translated and appended in order: a completed run has written one entry
\* per chunk whichever chunks failed.
C8_FailedChunkFallsBack ==
    InLoop =>
        /\ generate_calls = Len(calls)
        /\ Len(failed) = Len(calls)
        /\ Len(translated_paragraphs) = Len(calls)
        /\ \A i \in 1..Len(calls) :
               /\ failed[i] => translated_paragraphs[i] = calls[i]
               /\ i <= Len(writes) =>
                      writes[i] = IF start_line = 1 /\ i = 1
                                  THEN translated_paragraphs[i]
                                  ELSE SEP \o translated_paragraphs[i]
        /\ pc \in {"return", "done"} =>
               /\ Len(writes) = Len(calls)
               /\ Len(calls) = chunk_count
               /\ NonEmpty(ParagraphsOf(calls))
                      = NonEmpty(SubSeq(paragraphs, start_line, Len(paragraphs)))
               /\ file_content = (IF start_line = 1 THEN <<>> ELSE file_before.content)
                                     \o join(<<>>, writes)

\* C8 witness: the first chunk failed, the second was translated, both are
\* in the file
C8_Witness ==
    /\ pc = "done" /\ Len(calls) >= 2 /\ Len(writes) = Len(calls)
    /\ failed[1] /\ ~failed[2]
    /\ translated_paragraphs[1] = calls[1]
    /\ translated_paragraphs[2] # calls[2]

\* C9: after a completed run from paragraph 1 with a successful load, the
\* first append carried no separator, every later one exactly one '\n\n', and
\* the file content equals the return value, the '\n\n'-join of the chunk
\* translations in order.
C9_FileEqualsReturn ==
    (pc = "done" /\ model # None /\ start_line = 1) =>
        /\ Len(writes) = Len(translated_paragraphs)
        /\ \A i \in 1..Len(writes) :
               writes[i] = IF i = 1 THEN translated_paragraphs[1]
                           ELSE SEP \o translated_paragraphs[i]
        /\ returned = join(SEP, translated_paragraphs)
        /\ file_content = returned

\* C9 witness: a completed run from paragraph 1 that wrote two chunks
C9_Witness ==
    /\ pc = "done" /\ model # None /\ start_line = 1
    /\ Len(writes) >= 2 /\ file_content = returned
    /\ translated_paragraphs[1] # <<>>

\* C10: for any Markdown text and chunk size >= 1, from paragraph 1, joining
\* the original text of all chunks with '\n\n' gives back the original
\* paragraph sequence: nothing lost, duplicated or reordered.
C10_ChunksRoundTrip ==
    (pc = "done" /\ model # None /\ start_line = 1) =>
        split(join(SEP, calls), SEP) = paragraphs

\* the part of C10 the code keeps: the round trip of the non-empty paragraphs
NonEmptyRoundTrip ==
    (pc = "done" /\ model # None /\ start_line = 1) =>
        NonEmpty(ParagraphsOf(calls)) = NonEmpty(paragraphs)

\* the round trip holds of every text whose paragraphs are all non-empty
RoundTripWithoutEmpty ==
    (pc = "done" /\ model # None /\ start_line = 1
        /\ \A i \in 1..Len(paragraphs) : paragraphs[i] # <<>>) =>
        /\ join(SEP, calls) = markdown_content
        /\ ParagraphsOf(calls) = paragraphs

\* a run from paragraph 1 was terminated after it had appended one chunk or
\* more, the run after it has returned, and a complete run from paragraph 1
\* on the same input is on record
Resumed ==
    /\ pc = "done" /\ model # None
    /\ last.outcome = "killed" /\ last.start_line = 1 /\ last.appended >= 1
    /\ ref_file # None

\* C2: a run from paragraph 1 terminated after j >= 1 appended chunks, then a
\* run with start paragraph 1 + (the number of paragraphs those j chunks
\* contain), leaves the file an uninterrupted run from paragraph 1 leaves.
C2_ResumeEqualsUninterrupted ==
    (Resumed /\ start_line = 1 + last.contained) => file_content = ref_file

\* what the code keeps of C2: resuming after the paragraph number the
\* terminated run printed with its last appended chunk gives the same file
ResumeAfterReported ==
    (Resumed /\ start_line = 1 + last.reported) => file_content = ref_file

\* the resumed run of ResumeAfterReported happens, and it translated a chunk
ResumeAfterReportedHappens ==
    Resumed /\ start_line = 1 + last.reported /\ calls # <<>>

\* the translation stage runs
Translating == pc \in {"load", "split", "loop", "translate", "append",
                       "translate_last", "append_last", "return", "done"}

\* C4: run without --no-translate and with --start-line K, the translation
\* stage runs with starting paragraph K and with the default chunk size of
\* 1000 characters (K = 1 when the option is omitted).
C4_StartLineReachesTranslator ==
    Translating => (start_line = arg_start_line /\ chunk_size = DefaultChunkSize)

\* what the code does instead: --start-line becomes the chunk size, and the
\* stage always starts from paragraph 1
StartLineBecomesChunkSize ==
    /\ Translating => (chunk_size = arg_start_line /\ start_line = DefaultStartLine)
    /\ ~ENABLED SkipParagraph

\* C11: a run from paragraph 1 in which the model loads and generation fails
\* on every chunk leaves the file that --no-translate writes for the same
\* input: the extracted Markdown itself.
C11_AllFailedEqualsNoTranslate ==
    (pc \in {"done", "exit"} /\ ~no_translate /\ model # None
        /\ \A i \in 1..Len(failed) : failed[i]) =>
        /\ markdown_content = html_to_markdown(html_content)
        /\ file_exists
        /\ file_content = markdown_content

\* C11 witness: two chunks, both failed, and the file is the Markdown
C11_Witness ==
    /\ pc = "exit" /\ exit_code = 0 /\ ~no_translate /\ model # None
    /\ Len(failed) >= 2 /\ \A i \in 1..Len(failed) : failed[i]
    /\ markdown_content # <<>> /\ join(SEP, calls) = markdown_content
    /\ file_content = html_to_markdown(html_content)

\* the document made of the paragraphs from the starting paragraph on
TailDocument == join(SEP, SubSeq(paragraphs, start_line, Len(paragraphs)))

\* a run from a later paragraph K has returned, and the run before it was a
\* complete run from paragraph 1 over the paragraphs K..N of this document
TailTranslatedBefore ==
    /\ pc = "done" /\ model # None /\ start_line > 1
    /\ last.outcome = "returned" /\ last.start_line = 1
    /\ last.document = TailDocument
    /\ ref_file # None

\* C12: what a run from paragraph K > 1 adds to the file is, after the one
\* separator that joins it to the earlier content, the file a fresh run from
\* paragraph 1 over the paragraphs K..N produces (nothing is added, and no
\* separator, when no chunk is left to translate).
C12_ResumeSuffix ==
    TailTranslatedBefore =>
        file_content = file_before.content
                           \o (IF writes = <<>> THEN <<>> ELSE SEP \o ref_file)

\* C12 witness: the run from paragraph K appended two chunks after old content
C12_Witness ==
    /\ TailTranslatedBefore
    /\ Len(writes) >= 2 /\ file_before.content # <<>>
    /\ translated_paragraphs[1] # translated_paragraphs[2]

\* the paragraphs of the i-th chunk passed to the primitive
ChunkParagraphs(i) == split(calls[i], SEP)

C14_NoTranslateWritesMarkdown ==
    no_translate =>
        /\ model = None /\ load_calls = 0 /\ generate_calls = 0 /\ calls = <<>>
        /\ (pc = "exit" /\ exit_code = 0) =>
               /\ input_exists
               /\ file_exists
               /\ file_content = html_to_markdown(html_content)
               /\ writes = <<html_to_markdown(html_content)>>
        /\ ~(pc = "exit" /\ exit_code = 0) =>
               /\ writes = <<>>
               /\ file_exists = file_before.exists
               /\ file_content = file_before.content

\* C14 witness: a --no-translate run over a file that held something else
C14_Witness ==
    /\ no_translate /\ pc = "exit" /\ exit_code = 0
    /\ file_before.exists /\ file_before.content # <<>>
    /\ file_content # <<>>
    /\ contains(file_content, SEP)

\* nothing of the run has happened: no extraction result, no model load, no
\* call of the primitive, and the output path is as it was
NothingDone ==
    /\ markdown_content = <<>> /\ returned = None
    /\ model = None /\ load_calls = 0 /\ generate_calls = 0 /\ calls = <<>>
    /\ writes = <<>>
    /\ file_exists = file_before.exists /\ file_content = file_before.content

\* C15: the command ends with code 1 when the input file is missing, before
\* anything is read, extracted, loaded or written, or when an exception
\* escapes; in every other case with code 0, whatever chunks fell back.
C15_ExitCodes ==
    /\ ~input_exists => (NothingDone /\ pc \in {"main", "exit", "killed"}
                            /\ (pc = "exit" => exit_code = 1))
    /\ pc = "exit" =>
           /\ exit_code \in {0, 1}
           /\ exit_code = 1 => NothingDone
           /\ (returned # None \/ writes # <<>>) => exit_code = 0
    /\ pc # "exit" => exit_code = None

\* C15 witness: code 0 after a run in which one chunk fell back and another
\* did not
C15_Witness ==
    /\ pc = "exit" /\ exit_code = 0 /\ input_exists
    /\ \E i \in 1..Len(failed) : failed[i]
    /\ \E i \in 1..Len(failed) : ~failed[i]

\* the missing input file ends the command with code 1
C15_MissingInputHappens == pc = "exit" /\ ~input_exists /\ file_before.exists

\* the segments of the result: what each region that is not blank contributes
Segments ==
    [i \in 1..Len(MarkdownParts(html_content)) |->
        Collapse(MarkdownParts(html_content)[i])]

\* three newlines in a row somewhere in s
HasLongRun(s) ==
    \E i \in 1..(Len(s) - 2) : s[i] = NL /\ s[i + 1] = NL /\ s[i + 2] = NL

\* the result is its segments joined by exactly one blank line: no segment
\* is empty or begins or ends with a newline, and no run of three newlines
SegmentsJoined ==
    /\ markdown_content = join(SEP, Segments)
    /\ \A i \in 1..Len(Segments) :
           /\ Segments[i] # <<>>
           /\ Head(Segments[i]) # NL
           /\ Segments[i][Len(Segments[i])] # NL
    /\ ~HasLongRun(markdown_content)

\* C16 as stated: for N >= 1 regions, whatever they convert to, the result
\* is at least 1 and at most N non-empty segments joined by exactly one blank
\* line, without a run of three or more newlines.
C16_OneToNSegments ==
    pc = "converted" =>
        /\ SegmentsJoined
        /\ Len(Segments) >= 1
        /\ Len(Segments) <= Len(html_content)

\* C16 amended: the segments are at most N and may be none: the result is
\* empty exactly when every region is blank.
C16_UpToNSegments ==
    pc = "converted" =>
        /\ SegmentsJoined
        /\ Len(Segments) <= Len(html_content)
        /\ Len(Segments) = Cardinality({i \in 1..Len(html_content) :
                                            strip(html_content[i]) # <<>>})
        /\ (markdown_content = <<>>) <=>
               (\A i \in 1..Len(html_content) : strip(html_content[i]) = <<>>)

\* C16 witness: two regions, one of them blank and the other with a run of
\* newlines that is collapsed, give one segment
C16_Witness ==
    /\ pc = "converted"
    /\ Len(html_content) = 2 /\ Len(Segments) = 1
    /\ \E i \in 1..2 : html_content[i] # <<>> /\ strip(html_content[i]) = <<>>
    /\ \E i \in 1..2 : HasLongRun(strip(html_content[i]))
    /\ markdown_content # <<>>

\* C17: every chunk passed to the primitive is at most chunk_size symbols
\* long, separators included, unless it is a single paragraph that is itself
\* longer than chunk_size.
C17_ChunkWithinSize ==
    InLoop =>
        \A i \in 1..Len(calls) :
            \/ Len(calls[i]) <= chunk_size
            \/ Len(ChunkParagraphs(i)) = 1

\* what the test of line 217 does bound: the paragraphs of a chunk without
\* the separators between them, unless the chunk is one oversized paragraph
ParagraphsWithinSize ==
    InLoop =>
        \A i \in 1..Len(calls) :
            \/ Len(calls[i]) - Len(SEP) * (Len(ChunkParagraphs(i)) - 1) <= chunk_size
            \/ Len(ChunkParagraphs(i)) = 1

\* translate_with_mlx_lm, called alone, has returned
Returned == pc = "returned"

\* C18: translate_with_mlx_lm never returns an empty string for a non-empty
\* text, whatever the model name and the raw output of generate().
C18_NeverEmpty ==
    (Returned /\ text # <<>>) => result # <<>>

\* the fallback of lines 131-133 does keep the result of the built-in
\* translation model non-empty
PlamoNeverEmpty ==
    (Returned /\ text # <<>> /\ IsPlamo(model_name) /\ IsTranslate(model_name))
        => result # <<>>

\* a generic model has returned a raw output that holds the delimiter
GenericDelimited ==
    /\ Returned
    /\ ~(IsPlamo(model_name) /\ IsTranslate(model_name))
    /\ translated_text # None
    /\ contains(translated_text, <<JT>>)

\* what follows the last delimiter in the raw output, without the
\* whitespace around it
AfterDelimiter ==
    strip(split(translated_text, <<JT>>)[Len(split(translated_text, <<JT>>))])

\* C19: for a generic model whose raw output holds the delimiter, the result
\* is everything after the delimiter, trailing blank lines trimmed: a
\* translation of several paragraphs is returned with all of them.
C19_EverythingAfterDelimiter ==
    GenericDelimited => result = AfterDelimiter

\* what lines 141-149 do return: the text after the delimiter up to its
\* first blank line
FirstParagraphReturned ==
    GenericDelimited => result = split(AfterDelimiter, SEP)[1]

\* the output file exists and holds what this run produced
OutputHoldsResult ==
    /\ file_exists
    /\ file_content = (IF no_translate THEN markdown_content ELSE returned)

\* C20: whenever the command ends with code 0, with or without
\* --no-translate, the output file exists and holds the result of this run.
C20_ExitZeroHasOutput ==
    (pc = "exit" /\ exit_code = 0) => OutputHoldsResult

\* it does whenever the model was loaded or no translation was asked for
ExitZeroAfterLoadHasOutput ==
    (pc = "exit" /\ exit_code = 0 /\ (no_translate \/ model # None))
        => OutputHoldsResult

====
